---- MODULE Spec2Model ----
(***************************************************************************)
(* Streak-Up (Django habit tracker): the request handlers of               *)
(* HabitTracker/habit/views.py together with the model and form            *)
(* validation of models.py and forms.py they run through.                  *)
(*                                                                         *)
(* The database runs in autocommit mode (views.py opens no transaction),   *)
(* so every ORM statement of a handler is one atomic step and the steps    *)
(* of concurrent requests interleave.  Each request slot of Procs carries  *)
(* one request at a time.                                                  *)
(*                                                                         *)
(* The specifications share the module, one per area of the program:       *)
(*   SpecReward     reward_claim                    (views.py 258-268)     *)
(*   SpecFriend     friend requests and friendships (views.py 146-188)     *)
(*   SpecReject     friend_request_reject           (views.py 175-180)     *)
(*   SpecLog        log_add / log_edit              (views.py 445-513)     *)
(*   SpecLogRace    two concurrent log requests                            *)
(*   SpecLogStatus  the log forms and the admin's inline log form          *)
(*   SpecLogFrame   log requests next to streaks, points and badges        *)
(*   SpecLogTarget  log requests and habit_edit of the target              *)
(*   SpecHabit      habit_add / create / edit / delete (views.py 296-365)  *)
(*   SpecCascade    habit_delete over logs and streaks                     *)
(*   SpecStreak     Streak rows                     (admin.py 215-219)     *)
(*   SpecBadge      points and UserBadge rows       (admin.py 233-239)     *)
(*   SpecChallenge  ChallengeProgress rows          (admin.py 294-299)     *)
(*   SpecNotif      notification requests           (views.py 206-222)     *)
(***************************************************************************)
EXTENDS Integers, FiniteSets, Sequences, TLC

\* ---------------------------------------------------------------- bounds
MaxPoints == 3
MaxRequests == 3
MaxLogs == 2
MaxDay == 2
MaxProgress == 3
MaxStreakRows == 2
MaxNotifications == 3

\* Two request slots: the two browser tabs of section 5 of the specification.
Procs == {1, 2}
Users == {"alice", "bob"}

\* ---------------------------------------------------------------- state
\* users' points and the reward_claim requests
VARIABLES points, points0, spent, claimed_by, is_claimed, rpc, rreq, rres
\* FriendRequest and Friendship rows and the friend requests' handlers
VARIABLES friend_requests, friendships, frNext, fsNext, fpc, freq, fres
\* HabitLog rows, the calendar day, the log_add / log_edit requests in
\* progress and the outcome of the last one that ended
VARIABLES logs, logNext, today, lpc, lreq, lhabit, lres
\* Habit rows and the outcome of the last habit request
VARIABLES habits, habitNext, hres
\* Streak rows
VARIABLES streaks, streakNext
\* UserBadge rows
VARIABLES user_badges, ubNext
\* ChallengeProgress rows
VARIABLES challenge_progress, cpNext
\* Notification rows, the notification_mark_read request in progress and the
\* outcome of the last notification request that ended
VARIABLES notifications, notifNext, npc, nreq, nres

rewardVars == <<points, points0, spent, claimed_by, is_claimed, rpc, rreq, rres>>
friendVars == <<friend_requests, friendships, frNext, fsNext, fpc, freq, fres>>
logVars == <<logs, logNext, today, lpc, lreq, lhabit, lres>>
habitVars == <<habits, habitNext, hres>>
streakVars == <<streaks, streakNext>>
badgeVars == <<user_badges, ubNext>>
challengeVars == <<challenge_progress, cpNext>>
notifVars == <<notifications, notifNext, npc, nreq, nres>>
vars == <<rewardVars, friendVars, logVars, habitVars, streakVars, badgeVars, challengeVars, notifVars>>

notReward == <<friendVars, logVars, habitVars, streakVars, badgeVars, challengeVars, notifVars>>
notFriend == <<rewardVars, logVars, habitVars, streakVars, badgeVars, challengeVars, notifVars>>
notLog == <<rewardVars, friendVars, habitVars, streakVars, badgeVars, challengeVars, notifVars>>
notStreak == <<rewardVars, friendVars, logVars, habitVars, badgeVars, challengeVars, notifVars>>
notHabit == <<rewardVars, friendVars, badgeVars, challengeVars, notifVars>>
notBadge == <<friendVars, logVars, habitVars, streakVars, challengeVars, notifVars>>
notChallenge == <<rewardVars, friendVars, logVars, habitVars, streakVars, badgeVars, notifVars>>
notNotif == <<rewardVars, friendVars, logVars, habitVars, streakVars, badgeVars, challengeVars>>

\* ======================================================================
\* Rewards
\* ======================================================================

\* The Reward table: pk |-> [user, points_required] (rows come from the admin).
Rewards == [pk \in 1..2 |-> [user |-> IF pk = 1 THEN "alice" ELSE "bob", points_required |-> pk]]

RewardPks == DOMAIN Rewards \cup {3}

\* models.py 350-356: the fields of Reward; there is no claimed_by relation.
RewardFields == {"user", "title", "description", "points_required", "is_claimed", "created_at"}

NoClaim == [user |-> "", pk |-> 0, points |-> 0, debited |-> FALSE]

SufficientPoints_OffByOne(userPoints, required) == userPoints + 1 >= required

\* views.py 261
SufficientPoints(userPoints, required) == userPoints >= required

\* models.py 37, 52-56: full_clean runs MinValueValidator(0) on points.
User_full_clean(userPoints) == userPoints >= 0

\* models.py 37: a new user has 0 points; the admin's user form (admin.py
\* 47) sets them, no view ever adds any.
RewardInit(pointValues) ==
    /\ points \in [Users -> pointValues]
    /\ points0 = points
    /\ spent = [u \in Users |-> 0]
    /\ claimed_by = {}
    /\ is_claimed = [pk \in DOMAIN Rewards |-> FALSE]
    /\ rpc = [p \in Procs |-> "idle"]
    /\ rreq = [p \in Procs |-> NoClaim]
    /\ rres = [p \in Procs |-> "none"]

\* views.py 259-262, 266-268: load request.user and the reward, test the
\* balance, debit the in-memory user.
reward_claim(p, u, pk) ==
    /\ rpc[p] = "idle"
    /\ IF pk \notin DOMAIN Rewards
       THEN /\ rres' = [rres EXCEPT ![p] = "notfound"]
            /\ rreq' = [rreq EXCEPT ![p] = [NoClaim EXCEPT !.user = u, !.pk = pk]]
            /\ UNCHANGED rpc
       ELSE IF SufficientPoints(points[u], Rewards[pk].points_required)
       THEN /\ rpc' = [rpc EXCEPT ![p] = "save"]
            /\ rreq' = [rreq EXCEPT ![p] = [NoClaim EXCEPT !.user = u, !.pk = pk,
                              !.points = points[u] - Rewards[pk].points_required]]
            /\ rres' = [rres EXCEPT ![p] = "none"]
       ELSE /\ rres' = [rres EXCEPT ![p] = "error"]
            /\ rreq' = [rreq EXCEPT ![p] = [NoClaim EXCEPT !.user = u, !.pk = pk]]
            /\ UNCHANGED rpc
    /\ UNCHANGED <<points, points0, spent, claimed_by, is_claimed, notReward>>

reward_claim_save_Relative(p) ==
    /\ rpc[p] = "save"
    /\ rpc' = [rpc EXCEPT ![p] = "idle"]
    /\ IF ~User_full_clean(rreq[p].points)
       THEN /\ rres' = [rres EXCEPT ![p] = "crash"]
            /\ rreq' = [rreq EXCEPT ![p].points = 0]
            /\ UNCHANGED <<points, spent, claimed_by>>
       ELSE /\ points' = [points EXCEPT ![rreq[p].user] = @ - Rewards[rreq[p].pk].points_required]
            /\ UNCHANGED <<claimed_by, spent>>
            /\ rreq' = [rreq EXCEPT ![p].points = 0, ![p].debited = TRUE]
            /\ rres' = [rres EXCEPT ![p] = "crash"]
    /\ UNCHANGED <<points0, is_claimed, notReward>>

\* views.py 263-265: request.user.save() writes the in-memory balance, then
\* reward.claimed_by is looked up on the Reward instance.
reward_claim_save(p) ==
    /\ rpc[p] = "save"
    /\ rpc' = [rpc EXCEPT ![p] = "idle"]
    /\ IF ~User_full_clean(rreq[p].points)
       THEN /\ rres' = [rres EXCEPT ![p] = "crash"]
            /\ rreq' = [rreq EXCEPT ![p].points = 0]
            /\ UNCHANGED <<points, spent, claimed_by>>
       ELSE /\ points' = [points EXCEPT ![rreq[p].user] = rreq[p].points]
            /\ IF "claimed_by" \in RewardFields
               THEN /\ claimed_by' = claimed_by \cup {<<rreq[p].pk, rreq[p].user>>}
                    /\ spent' = [spent EXCEPT ![rreq[p].user] = @ + Rewards[rreq[p].pk].points_required]
                    /\ rreq' = [rreq EXCEPT ![p].points = 0, ![p].debited = TRUE]
                    /\ rres' = [rres EXCEPT ![p] = "success"]
               ELSE /\ UNCHANGED <<claimed_by, spent>>
                    /\ rreq' = [rreq EXCEPT ![p].points = 0, ![p].debited = TRUE]
                    /\ rres' = [rres EXCEPT ![p] = "crash"]
    /\ UNCHANGED <<points0, is_claimed, notReward>>

\* admin.py 320-328: the admin actions set is_claimed on a reward.
mark_as_claimed(pk, b) ==
    /\ is_claimed[pk] # b
    /\ is_claimed' = [is_claimed EXCEPT ![pk] = b]
    /\ UNCHANGED <<points, points0, spent, claimed_by, rpc, rreq, rres, notReward>>

RewardNext ==
    \/ \E p \in Procs, u \in Users, pk \in RewardPks : reward_claim(p, u, pk)
    \/ \E p \in Procs : reward_claim_save(p)
    \/ \E pk \in DOMAIN Rewards, b \in BOOLEAN : mark_as_claimed(pk, b)


\* ======================================================================
\* Friend requests and friendships
\* ======================================================================

\* Rows are records carrying their primary key; pk 0 and user "" stand for
\* "no row" / an unset foreign key.
NoFriendReq == [op |-> "", user |-> "", pk |-> 0, from_user |-> "", email |-> ""]

\* models.py 274-275 (unique_together) seen through Manager.get_or_create:
\* the row is inserted only when no row with this (user, friend) exists.
Friendship_get_or_create_NoLookup(rows, pk, u, f) ==
    rows \cup {[pk |-> pk, user |-> u, friend |-> f]}

Friendship_get_or_create(rows, pk, u, f) ==
    IF \E r \in rows : r.user = u /\ r.friend = f
    THEN rows
    ELSE rows \cup {[pk |-> pk, user |-> u, friend |-> f]}

\* models.py 301-307: FriendRequest.clean; reading an unset from_user raises
\* RelatedObjectDoesNotExist, which is not a ValidationError.
FriendRequest_clean(from_user, to_user) ==
    IF from_user = "" THEN "raise"
    ELSE IF from_user = to_user THEN "invalid"
    ELSE IF \E r \in friendships : r.user = from_user /\ r.friend = to_user THEN "invalid"
    ELSE "ok"

\* forms.py 255-266: FriendRequestForm.clean_to_user_email on the form's
\* instance (a FriendRequest whose from_user is instance_from_user).
clean_to_user_email(email, instance_from_user) ==
    IF email \notin Users THEN "invalid"
    ELSE IF instance_from_user = "" THEN "raise"
    ELSE IF email = instance_from_user THEN "invalid"
    ELSE "ok"

\* forms.py 241-266 run by form.is_valid(): the field's clean method, then
\* the instance's full_clean, which calls FriendRequest.clean even when a
\* field failed; an exception other than ValidationError escapes.
FriendRequestForm_is_valid(email, instance_from_user) ==
    LET field == clean_to_user_email(email, instance_from_user)
        model == FriendRequest_clean(instance_from_user, "")
    IN  IF field = "raise" \/ model = "raise" THEN "raise"
        ELSE IF field = "invalid" \/ model = "invalid" THEN "invalid"
        ELSE "ok"

\* one Friendship row per ordered pair of users at most (models.py 275)
FriendshipPks == 1..(Cardinality(Users) * Cardinality(Users))

FriendInit ==
    /\ friend_requests = {}
    /\ friendships = {}
    /\ frNext = 1
    /\ fsNext = 1
    /\ fpc = [p \in Procs |-> "idle"]
    /\ freq = [p \in Procs |-> NoFriendReq]
    /\ fres = [p \in Procs |-> "none"]

\* admin.py 302-308: FriendRequestAdmin's add form validates the instance
\* (FriendRequest.clean, unique_together of models.py 294) and inserts it.
admin_add_friend_request(f, t) ==
    /\ frNext <= MaxRequests
    /\ FriendRequest_clean(f, t) = "ok"
    /\ ~\E r \in friend_requests : r.from_user = f /\ r.to_user = t
    /\ friend_requests' = friend_requests \cup {[pk |-> frNext, from_user |-> f, to_user |-> t]}
    /\ frNext' = frNext + 1
    /\ UNCHANGED <<friendships, fsNext, fpc, freq, fres, notFriend>>

\* views.py 146-164 (POST): FriendRequestForm(request.POST) is built without
\* an instance, so the form's FriendRequest has no from_user.
friend_request_send(p, u, email) ==
    /\ fpc[p] = "idle"
    /\ freq' = [freq EXCEPT ![p] = [NoFriendReq EXCEPT !.op = "send", !.user = u, !.email = email]]
    /\ LET valid == FriendRequestForm_is_valid(email, "")
       IN  IF valid = "raise"
           THEN /\ fres' = [fres EXCEPT ![p] = "crash"]
                /\ UNCHANGED <<friend_requests, frNext>>
           ELSE IF valid = "invalid"
           THEN /\ fres' = [fres EXCEPT ![p] = "invalid"]
                /\ UNCHANGED <<friend_requests, frNext>>
           ELSE \* views.py 151: cleaned_data has no key 'email'
                /\ fres' = [fres EXCEPT ![p] = "crash"]
                /\ UNCHANGED <<friend_requests, frNext>>
    /\ UNCHANGED <<friendships, fsNext, fpc, notFriend>>

friend_request_accept_AnyUser(p, u, pk) ==
    /\ fpc[p] = "idle"
    /\ IF \E r \in friend_requests : r.pk = pk
       THEN LET fr == CHOOSE r \in friend_requests : r.pk = pk
            IN  /\ fpc' = [fpc EXCEPT ![p] = "accept1"]
                /\ freq' = [freq EXCEPT ![p] = [NoFriendReq EXCEPT !.op = "accept", !.user = u, !.pk = pk, !.from_user = fr.from_user]]
                /\ fres' = [fres EXCEPT ![p] = "none"]
       ELSE /\ fres' = [fres EXCEPT ![p] = "notfound"]
            /\ freq' = [freq EXCEPT ![p] = [NoFriendReq EXCEPT !.op = "accept", !.user = u, !.pk = pk]]
            /\ UNCHANGED fpc
    /\ UNCHANGED <<friend_requests, friendships, frNext, fsNext, notFriend>>

\* views.py 168: get_object_or_404(FriendRequest, pk=pk, to_user=request.user)
friend_request_accept(p, u, pk) ==
    /\ fpc[p] = "idle"
    /\ IF \E r \in friend_requests : r.pk = pk /\ r.to_user = u
       THEN LET fr == CHOOSE r \in friend_requests : r.pk = pk /\ r.to_user = u
            IN  /\ fpc' = [fpc EXCEPT ![p] = "accept1"]
                /\ freq' = [freq EXCEPT ![p] = [NoFriendReq EXCEPT !.op = "accept", !.user = u, !.pk = pk, !.from_user = fr.from_user]]
                /\ fres' = [fres EXCEPT ![p] = "none"]
       ELSE /\ fres' = [fres EXCEPT ![p] = "notfound"]
            /\ freq' = [freq EXCEPT ![p] = [NoFriendReq EXCEPT !.op = "accept", !.user = u, !.pk = pk]]
            /\ UNCHANGED fpc
    /\ UNCHANGED <<friend_requests, friendships, frNext, fsNext, notFriend>>

\* views.py 169: Friendship.objects.get_or_create(user=request.user, friend=fr.from_user)
friend_request_accept_1(p) ==
    /\ fpc[p] = "accept1"
    /\ friendships' = Friendship_get_or_create(friendships, fsNext, freq[p].user, freq[p].from_user)
    /\ fsNext' = IF friendships' = friendships THEN fsNext ELSE fsNext + 1
    /\ fpc' = [fpc EXCEPT ![p] = "accept2"]
    /\ UNCHANGED <<friend_requests, frNext, freq, fres, notFriend>>

friend_request_accept_2_SameSide(p) ==
    /\ fpc[p] = "accept2"
    /\ friendships' = Friendship_get_or_create(friendships, fsNext, freq[p].user, freq[p].from_user)
    /\ fsNext' = IF friendships' = friendships THEN fsNext ELSE fsNext + 1
    /\ fpc' = [fpc EXCEPT ![p] = "accept3"]
    /\ UNCHANGED <<friend_requests, frNext, freq, fres, notFriend>>

\* views.py 170: Friendship.objects.get_or_create(user=fr.from_user, friend=request.user)
friend_request_accept_2(p) ==
    /\ fpc[p] = "accept2"
    /\ friendships' = Friendship_get_or_create(friendships, fsNext, freq[p].from_user, freq[p].user)
    /\ fsNext' = IF friendships' = friendships THEN fsNext ELSE fsNext + 1
    /\ fpc' = [fpc EXCEPT ![p] = "accept3"]
    /\ UNCHANGED <<friend_requests, frNext, freq, fres, notFriend>>

\* views.py 171-173: fr.delete(), success message, redirect
friend_request_accept_3(p) ==
    /\ fpc[p] = "accept3"
    /\ friend_requests' = {r \in friend_requests : r.pk # freq[p].pk}
    /\ fpc' = [fpc EXCEPT ![p] = "idle"]
    /\ fres' = [fres EXCEPT ![p] = "success"]
    /\ UNCHANGED <<friendships, frNext, fsNext, freq, notFriend>>

\* views.py 177: get_object_or_404(FriendRequest, pk=pk, to_user=request.user)
friend_request_reject(p, u, pk) ==
    /\ fpc[p] = "idle"
    /\ IF \E r \in friend_requests : r.pk = pk /\ r.to_user = u
       THEN LET fr == CHOOSE r \in friend_requests : r.pk = pk /\ r.to_user = u
            IN  /\ fpc' = [fpc EXCEPT ![p] = "reject1"]
                /\ freq' = [freq EXCEPT ![p] = [NoFriendReq EXCEPT !.op = "reject", !.user = u, !.pk = pk, !.from_user = fr.from_user]]
                /\ fres' = [fres EXCEPT ![p] = "none"]
       ELSE /\ fres' = [fres EXCEPT ![p] = "notfound"]
            /\ freq' = [freq EXCEPT ![p] = [NoFriendReq EXCEPT !.op = "reject", !.user = u, !.pk = pk]]
            /\ UNCHANGED fpc
    /\ UNCHANGED <<friend_requests, friendships, frNext, fsNext, notFriend>>

friend_request_reject_1_AllReceived(p) ==
    /\ fpc[p] = "reject1"
    /\ friend_requests' = {r \in friend_requests : r.to_user # freq[p].user}
    /\ fpc' = [fpc EXCEPT ![p] = "idle"]
    /\ fres' = [fres EXCEPT ![p] = "rejected"]
    /\ UNCHANGED <<friendships, frNext, fsNext, freq, notFriend>>

\* views.py 178-180: fr.delete(), info message, redirect
friend_request_reject_1(p) ==
    /\ fpc[p] = "reject1"
    /\ friend_requests' = {r \in friend_requests : r.pk # freq[p].pk}
    /\ fpc' = [fpc EXCEPT ![p] = "idle"]
    /\ fres' = [fres EXCEPT ![p] = "rejected"]
    /\ UNCHANGED <<friendships, frNext, fsNext, freq, notFriend>>

\* models.py 269-284: the attributes of a Friendship; friendship_reverse is
\* not among them.
FriendshipAttrs == {"user", "friend", "created_at", "clean", "delete", "save"}

\* views.py 182-188: get_object_or_404(Friendship, pk=pk, user=request.user),
\* then friendship.friendship_reverse().delete() and friendship.delete().
friend_remove(p, u, pk) ==
    /\ fpc[p] = "idle"
    /\ freq' = [freq EXCEPT ![p] = [NoFriendReq EXCEPT !.op = "remove", !.user = u, !.pk = pk]]
    /\ IF ~\E r \in friendships : r.pk = pk /\ r.user = u
       THEN /\ fres' = [fres EXCEPT ![p] = "notfound"]
            /\ UNCHANGED friendships
       ELSE IF "friendship_reverse" \notin FriendshipAttrs
       THEN /\ fres' = [fres EXCEPT ![p] = "crash"]
            /\ UNCHANGED friendships
       ELSE LET fs == CHOOSE r \in friendships : r.pk = pk /\ r.user = u
            IN  /\ friendships' = {r \in friendships :
                        /\ r.pk # pk
                        /\ ~(r.user = fs.friend /\ r.friend = fs.user)}
                /\ fres' = [fres EXCEPT ![p] = "removed"]
    /\ UNCHANGED <<friend_requests, frNext, fsNext, fpc, notFriend>>

FriendNext ==
    \/ \E f \in Users, t \in Users : admin_add_friend_request(f, t)
    \/ \E p \in Procs, u \in Users, e \in Users \cup {"nobody"} : friend_request_send(p, u, e)
    \/ \E p \in Procs, u \in Users, pk \in 1..MaxRequests : friend_request_accept(p, u, pk)
    \/ \E p \in Procs : friend_request_accept_1(p)
    \/ \E p \in Procs : friend_request_accept_2(p)
    \/ \E p \in Procs : friend_request_accept_3(p)
    \/ \E p \in Procs, u \in Users, pk \in 1..MaxRequests : friend_request_reject(p, u, pk)
    \/ \E p \in Procs : friend_request_reject_1(p)
    \/ \E p \in Procs, u \in Users, pk \in FriendshipPks : friend_remove(p, u, pk)

\* ======================================================================
\* Habit logs
\* ======================================================================

\* The Habit table at the start: id |-> [user, frequency, target_per_day,
\* status, start_date, end_date] (models.py 95, 99, 102-105, 107, 110-111);
\* end_date 0 is None.
Habits == [id \in 1..2 |->
             [user |-> IF id = 1 THEN "alice" ELSE "bob",
              frequency |-> "daily",
              target_per_day |-> id,
              status |-> "progressing",
              start_date |-> 1,
              end_date |-> 0]]

HabitIds == DOMAIN Habits \cup {3}

\* no Habit instance
NoHabit == [user |-> "", frequency |-> "", target_per_day |-> 0, status |-> "",
            start_date |-> 0, end_date |-> 0]

\* models.py 141-144
STATUS_CHOICES == {"pending", "done"}

\* A HabitLog instance in memory; pk 0 is an instance not yet inserted
\* (models.py 146-150 give the defaults).
NoLog == [pk |-> 0, habit |-> 0, date |-> 0, progress |-> 0,
          completed |-> FALSE, status |-> "pending"]

\* forms.py 187-194: HabitLogForm.clean_progress; self_habit is the Habit
\* instance the form was built with (NoHabit when the view passes none).
clean_progress(self_habit, progress) ==
    ~(self_habit # NoHabit /\ progress > self_habit.target_per_day)

HabitLog_clean_Skipped(log, habit) == TRUE

HabitLog_clean_OffByOne(log, habit) == ~(log.progress > habit.target_per_day + 1)

\* models.py 170-175: HabitLog.clean; habit is the Habit instance that
\* self.habit gives.
HabitLog_clean(log, habit) == ~(log.progress > habit.target_per_day)

\* Model.clean_fields on the habit foreign key (models.py 146): the row it
\* points at must exist.
HabitLog_clean_fields(log) == log.habit \in DOMAIN habits

\* models.py 155 through Model.validate_unique (run by full_clean and by the
\* form): no other row has this (habit, date).
HabitLog_validate_unique(log) ==
    ~\E r \in logs : r.habit = log.habit /\ r.date = log.date /\ r.pk # log.pk

HabitLog_unique_together_Missing(log) == TRUE

\* models.py 152-155: unique_together as the database's unique index, tested
\* by the INSERT or UPDATE itself.
HabitLog_unique_together(log) ==
    ~\E r \in logs : r.habit = log.habit /\ r.date = log.date /\ r.pk # log.pk

\* forms.py 167-194 run by form.is_valid() on the instance built from the
\* posted habit, date, status and progress: the error it reports, "" if none.
\* The habit field is a choice among the stored habits.
HabitLogForm_errors(self_habit, posted) ==
    IF posted.habit \notin DOMAIN habits
    THEN "invalid_choice"
    ELSE IF \/ ~clean_progress(self_habit, posted.progress)
            \/ ~HabitLog_clean(posted, habits[posted.habit])
    THEN "progress_exceeds_target"
    ELSE IF ~HabitLog_validate_unique(posted)
    THEN "already_exists"
    ELSE ""

HabitLog_save_fields_KeepStatus(log, habit) ==
    LET completed == log.progress >= habit.target_per_day
    IN  [log EXCEPT !.completed = completed,
                    !.status = IF completed THEN "done" ELSE log.status]

HabitLog_save_fields_Strict(log, habit) ==
    LET completed == log.progress > habit.target_per_day
    IN  [log EXCEPT !.completed = completed,
                    !.status = IF completed THEN "done" ELSE "pending"]

\* models.py 179-180: HabitLog.save recomputes completed and status from
\* self.progress and self.habit.target_per_day.
HabitLog_save_fields(log, habit) ==
    LET completed == log.progress >= habit.target_per_day
    IN  [log EXCEPT !.completed = completed,
                    !.status = IF completed THEN "done" ELSE "pending"]

\* models.py 181: full_clean inside save; its ValidationError is caught by
\* neither view.
HabitLog_full_clean(log, habit) ==
    /\ HabitLog_clean_fields(log)
    /\ HabitLog_clean(log, habit)
    /\ HabitLog_validate_unique(log)

LogInit ==
    /\ logs = {}
    /\ logNext = 1
    /\ today = 1
    /\ lpc = [p \in Procs |-> "idle"]
    /\ lreq = [p \in Procs |-> NoLog]
    /\ lhabit = [p \in Procs |-> NoHabit]
    /\ lres = "none"

\* views.py 517-518: today_date() follows the clock.
next_day ==
    /\ today < MaxDay
    /\ today' = today + 1
    /\ UNCHANGED <<logs, logNext, lpc, lreq, lhabit, lres, notLog>>

log_add_NoLookup(p, u, habit_id) ==
    /\ lpc[p] = "idle"
    /\ IF ~(habit_id \in DOMAIN habits /\ habits[habit_id].user = u)
       THEN /\ lres' = "notfound"
            /\ UNCHANGED <<lpc, lreq, lhabit>>
       ELSE /\ lres' = "none"
            /\ lreq' = [lreq EXCEPT ![p] = [NoLog EXCEPT !.habit = habit_id]]
            /\ lhabit' = [lhabit EXCEPT ![p] = habits[habit_id]]
            /\ lpc' = [lpc EXCEPT ![p] = "add_form"]
    /\ UNCHANGED <<logs, logNext, today, notLog>>

\* views.py 479-488: the habit of the URL must belong to the requester; a
\* log of that habit dated today sends the request on to log_edit.
log_add(p, u, habit_id) ==
    /\ lpc[p] = "idle"
    /\ IF ~(habit_id \in DOMAIN habits /\ habits[habit_id].user = u)
       THEN /\ lres' = "notfound"
            /\ UNCHANGED <<lpc, lreq, lhabit>>
       ELSE IF \E r \in logs : r.habit = habit_id /\ r.date = today
       THEN /\ lres' = "redirect"
            /\ UNCHANGED <<lpc, lreq, lhabit>>
       ELSE /\ lres' = "none"
            /\ lreq' = [lreq EXCEPT ![p] = [NoLog EXCEPT !.habit = habit_id]]
            /\ lhabit' = [lhabit EXCEPT ![p] = habits[habit_id]]
            /\ lpc' = [lpc EXCEPT ![p] = "add_form"]
    /\ UNCHANGED <<logs, logNext, today, notLog>>

\* views.py 491-496, 498-499: HabitLogForm(request.POST, habit=habit); a valid
\* form gives the instance, its habit is set to the URL's, and log.save()
\* runs up to its full_clean.
log_add_form(p, habit, date, status, progress) ==
    /\ lpc[p] = "add_form"
    /\ LET posted == [NoLog EXCEPT !.habit = habit, !.date = date,
                                   !.status = status, !.progress = progress]
           error == HabitLogForm_errors(lhabit[p], posted)
           log == HabitLog_save_fields([posted EXCEPT !.habit = lreq[p].habit], lhabit[p])
       IN  IF error # ""
           THEN /\ lres' = error
                /\ lreq' = [lreq EXCEPT ![p] = NoLog]
                /\ lpc' = [lpc EXCEPT ![p] = "idle"]
           ELSE IF ~HabitLog_full_clean(log, lhabit[p])
           THEN /\ lres' = "ValidationError"
                /\ lreq' = [lreq EXCEPT ![p] = NoLog]
                /\ lpc' = [lpc EXCEPT ![p] = "idle"]
           ELSE /\ lreq' = [lreq EXCEPT ![p] = log]
                /\ lpc' = [lpc EXCEPT ![p] = "write"]
                /\ UNCHANGED lres
    /\ lhabit' = [lhabit EXCEPT ![p] = NoHabit]
    /\ UNCHANGED <<logs, logNext, today, notLog>>

\* views.py 446-447: get_object_or_404(HabitLog, pk=pk, habit__user=request.user)
log_edit(p, u, pk) ==
    /\ lpc[p] = "idle"
    /\ IF \E r \in logs : r.pk = pk /\ habits[r.habit].user = u
       THEN /\ lreq' = [lreq EXCEPT ![p] = CHOOSE r \in logs : r.pk = pk]
            /\ lpc' = [lpc EXCEPT ![p] = "edit_form"]
            /\ lres' = "none"
       ELSE /\ lres' = "notfound"
            /\ UNCHANGED <<lpc, lreq>>
    /\ UNCHANGED <<logs, logNext, today, lhabit, notLog>>

\* views.py 448-453, 455-456: HabitLogForm(request.POST, instance=log), built
\* without the habit keyword; a valid form writes the posted habit, date,
\* status and progress into the instance, and log.save() runs up to its
\* full_clean.
log_edit_form(p, habit, date, status, progress) ==
    /\ lpc[p] = "edit_form"
    /\ LET posted == [lreq[p] EXCEPT !.habit = habit, !.date = date,
                                     !.status = status, !.progress = progress]
           error == HabitLogForm_errors(NoHabit, posted)
           log == HabitLog_save_fields(posted, habits[habit])
       IN  IF error # ""
           THEN /\ lres' = error
                /\ lreq' = [lreq EXCEPT ![p] = NoLog]
                /\ lpc' = [lpc EXCEPT ![p] = "idle"]
           ELSE IF ~HabitLog_full_clean(log, habits[habit])
           THEN /\ lres' = "ValidationError"
                /\ lreq' = [lreq EXCEPT ![p] = NoLog]
                /\ lpc' = [lpc EXCEPT ![p] = "idle"]
           ELSE /\ lreq' = [lreq EXCEPT ![p] = log]
                /\ lpc' = [lpc EXCEPT ![p] = "write"]
                /\ UNCHANGED lres
    /\ UNCHANGED <<logs, logNext, today, lhabit, notLog>>

HabitLog_save_WithStreak(p) ==
    /\ lpc[p] = "write"
    /\ lreq[p].pk = 0 => logNext <= MaxLogs
    /\ lpc' = [lpc EXCEPT ![p] = "idle"]
    /\ lreq' = [lreq EXCEPT ![p] = NoLog]
    /\ IF ~HabitLog_unique_together(lreq[p]) \/ lreq[p].habit \notin DOMAIN habits
       THEN /\ lres' = "IntegrityError"
            /\ UNCHANGED <<logs, logNext, streaks>>
       ELSE LET pk == IF lreq[p].pk = 0 THEN logNext ELSE lreq[p].pk
            IN  /\ logs' = {r \in logs : r.pk # pk} \cup {[lreq[p] EXCEPT !.pk = pk]}
                /\ logNext' = IF lreq[p].pk = 0 THEN logNext + 1 ELSE logNext
                /\ streaks' = {IF st.habit = lreq[p].habit /\ lreq[p].completed
                               THEN [st EXCEPT !.current_streak = @ + 1,
                                               !.last_completed = lreq[p].date]
                               ELSE st : st \in streaks}
                /\ lres' = "saved"
    /\ UNCHANGED <<today, lhabit, streakNext, rewardVars, friendVars, habitVars,
                   badgeVars, challengeVars, notifVars>>

\* models.py 182 (super().save()): INSERT of a new row, or UPDATE of the row
\* with the instance's pk (an INSERT when that row is gone), refused with
\* IntegrityError by the unique index or by the foreign key to a habit that
\* is gone; then the view's redirect (views.py 454, 497).
HabitLog_save(p) ==
    /\ lpc[p] = "write"
    /\ lreq[p].pk = 0 => logNext <= MaxLogs
    /\ lpc' = [lpc EXCEPT ![p] = "idle"]
    /\ lreq' = [lreq EXCEPT ![p] = NoLog]
    /\ IF ~HabitLog_unique_together(lreq[p]) \/ lreq[p].habit \notin DOMAIN habits
       THEN /\ lres' = "IntegrityError"
            /\ UNCHANGED <<logs, logNext>>
       ELSE LET pk == IF lreq[p].pk = 0 THEN logNext ELSE lreq[p].pk
            IN  /\ logs' = {r \in logs : r.pk # pk} \cup {[lreq[p] EXCEPT !.pk = pk]}
                /\ logNext' = IF lreq[p].pk = 0 THEN logNext + 1 ELSE logNext
                /\ lres' = "saved"
    /\ UNCHANGED <<today, lhabit, notLog>>

\* admin.py 97-103, 113: a row of HabitLogInline on the habit's admin page;
\* its form takes progress, completed and status (the date is read-only),
\* validates through HabitLog.clean and stores, when a posted value differs
\* from the stored one, through HabitLog.save.  The admin's request is taken
\* between two requests of the views.
admin_log_change(pk, progress, completed, status) ==
    /\ \A p \in Procs : lpc[p] = "idle"
    /\ \E r \in logs : r.pk = pk
    /\ LET old == CHOOSE r \in logs : r.pk = pk
           posted == [old EXCEPT !.progress = progress, !.completed = completed,
                                 !.status = status]
           log == HabitLog_save_fields(posted, habits[old.habit])
       IN  /\ HabitLog_clean(posted, habits[old.habit])
           /\ IF posted = old
              THEN logs' = logs
              ELSE /\ HabitLog_full_clean(log, habits[old.habit])
                   /\ logs' = (logs \ {old}) \cup {log}
    /\ UNCHANGED <<logNext, today, lpc, lreq, lhabit, lres, notLog>>

\* ======================================================================
\* Habits
\* ======================================================================

\* models.py 104: MinValueValidator(1), MaxValueValidator(99999)
MinTarget == 1
MaxTarget == 99999

\* the targets a habit form posts: each end of the range and its neighbour
TargetValues == {MinTarget - 1, MinTarget, MaxTarget, MaxTarget + 1}

\* the start and end dates a habit form posts (an end date of 0 is none)
HabitDates == {1, 2}

\* models.py 76-80; a posted 'custom' comes without custom_days
FREQUENCY_CHOICES == {"daily", "custom"}

HabitInit ==
    /\ habits = Habits
    /\ habitNext = 3
    /\ hres = "none"

\* models.py 102-105: the validators of target_per_day, run by the form
\* field and by Model.full_clean.
target_per_day_validators(target) == target >= MinTarget /\ target <= MaxTarget

\* forms.py 153-159: HabitForm.clean_target_per_day
clean_target_per_day(target) == ~(target < 1) /\ ~(target > 99999)

\* forms.py 132-151: HabitForm.clean on the cleaned fields
HabitForm_clean(frequency, start_date, end_date) ==
    /\ ~(frequency = "custom")
    /\ ~(end_date # 0 /\ start_date # 0 /\ end_date < start_date)

\* models.py 121-127: Habit.clean
Habit_clean(habit) ==
    /\ ~(habit.end_date # 0 /\ habit.start_date > habit.end_date)
    /\ ~(habit.frequency = "custom")

\* models.py 129-131: Model.full_clean inside Habit.save
Habit_full_clean(habit) ==
    target_per_day_validators(habit.target_per_day) /\ Habit_clean(habit)

HabitForm_is_valid_NoRange(posted) ==
    HabitForm_clean(posted.frequency, posted.start_date, posted.end_date)

\* forms.py 95-159 run by form.is_valid(): the fields, the form's clean, then
\* Habit.clean on the instance built from the posted values.
HabitForm_is_valid(posted) ==
    /\ target_per_day_validators(posted.target_per_day)
    /\ clean_target_per_day(posted.target_per_day)
    /\ HabitForm_clean(posted.frequency, posted.start_date, posted.end_date)
    /\ Habit_clean(posted)

\* views.py 296-307: habit_add; the new habit belongs to the requester.
habit_add(u, frequency, target, start_date, end_date) ==
    /\ habitNext \in HabitIds
    /\ LET posted == [user |-> u, frequency |-> frequency, target_per_day |-> target,
                      status |-> "progressing",
                      start_date |-> start_date, end_date |-> end_date]
       IN  IF ~HabitForm_is_valid(posted)
           THEN /\ hres' = "invalid"
                /\ UNCHANGED <<habits, habitNext>>
           ELSE IF ~Habit_full_clean(posted)
           THEN /\ hres' = "ValidationError"
                /\ UNCHANGED <<habits, habitNext>>
           ELSE /\ habits' = [id \in DOMAIN habits \cup {habitNext} |->
                                 IF id = habitNext THEN posted ELSE habits[id]]
                /\ habitNext' = habitNext + 1
                /\ hres' = "created"
    /\ UNCHANGED <<logVars, streakVars, notHabit>>

\* views.py 309-320: habit_create, the same handler under another URL
habit_create(u, frequency, target, start_date, end_date) ==
    /\ habitNext \in HabitIds
    /\ LET posted == [user |-> u, frequency |-> frequency, target_per_day |-> target,
                      status |-> "progressing",
                      start_date |-> start_date, end_date |-> end_date]
       IN  IF ~HabitForm_is_valid(posted)
           THEN /\ hres' = "invalid"
                /\ UNCHANGED <<habits, habitNext>>
           ELSE IF ~Habit_full_clean(posted)
           THEN /\ hres' = "ValidationError"
                /\ UNCHANGED <<habits, habitNext>>
           ELSE /\ habits' = [id \in DOMAIN habits \cup {habitNext} |->
                                 IF id = habitNext THEN posted ELSE habits[id]]
                /\ habitNext' = habitNext + 1
                /\ hres' = "created"
    /\ UNCHANGED <<logVars, streakVars, notHabit>>

\* views.py 345-356: habit_edit; the form writes the posted values into the
\* stored habit of the requester.
habit_edit(u, pk, frequency, target, start_date, end_date) ==
    /\ IF ~(pk \in DOMAIN habits /\ habits[pk].user = u)
       THEN /\ hres' = "notfound"
            /\ UNCHANGED habits
       ELSE LET posted == [habits[pk] EXCEPT !.frequency = frequency,
                                             !.target_per_day = target,
                                             !.start_date = start_date,
                                             !.end_date = end_date]
            IN  IF ~HabitForm_is_valid(posted)
                THEN /\ hres' = "invalid"
                     /\ UNCHANGED habits
                ELSE IF ~Habit_full_clean(posted)
                THEN /\ hres' = "ValidationError"
                     /\ UNCHANGED habits
                ELSE /\ habits' = [habits EXCEPT ![pk] = posted]
                     /\ hres' = "updated"
    /\ UNCHANGED <<habitNext, logVars, streakVars, notHabit>>

habit_delete_NoCascade(u, pk) ==
    /\ IF ~(pk \in DOMAIN habits /\ habits[pk].user = u)
       THEN /\ hres' = "notfound"
            /\ UNCHANGED <<habits, logs, streaks>>
       ELSE /\ habits' = [id \in DOMAIN habits \ {pk} |-> habits[id]]
            /\ logs' = {r \in logs : r.habit # pk}
            /\ UNCHANGED streaks
            /\ hres' = "deleted"
    /\ UNCHANGED <<habitNext, logNext, today, lpc, lreq, lhabit, lres,
                   streakNext, notHabit>>

\* views.py 358-365 (POST): habit.delete(); models.py 146 and 193: the
\* HabitLog and Streak rows of the habit go with it (on_delete=CASCADE), in
\* the one transaction of Model.delete.
habit_delete(u, pk) ==
    /\ IF ~(pk \in DOMAIN habits /\ habits[pk].user = u)
       THEN /\ hres' = "notfound"
            /\ UNCHANGED <<habits, logs, streaks>>
       ELSE /\ habits' = [id \in DOMAIN habits \ {pk} |-> habits[id]]
            /\ logs' = {r \in logs : r.habit # pk}
            /\ streaks' = {r \in streaks : r.habit # pk}
            /\ hres' = "deleted"
    /\ UNCHANGED <<habitNext, logNext, today, lpc, lreq, lhabit, lres,
                   streakNext, notHabit>>

HabitNext ==
    \/ \E u \in Users, f \in FREQUENCY_CHOICES, t \in TargetValues,
          s \in HabitDates, e \in {0} \cup HabitDates : habit_add(u, f, t, s, e)
    \/ \E u \in Users, f \in FREQUENCY_CHOICES, t \in TargetValues,
          s \in HabitDates, e \in {0} \cup HabitDates : habit_create(u, f, t, s, e)
    \/ \E u \in Users, pk \in HabitIds, f \in FREQUENCY_CHOICES, t \in TargetValues,
          s \in HabitDates, e \in {0} \cup HabitDates : habit_edit(u, pk, f, t, s, e)
    \/ \E u \in Users, pk \in HabitIds : habit_delete(u, pk)

\* ======================================================================
\* Streaks
\* ======================================================================

\* models.py 191-200: a Streak row; last_completed 0 is None.  The model
\* has no clean and no save of its own, and no unique constraint.
\* the streak lengths the admin enters
StreakLengths == 0..1

StreakInit ==
    /\ streaks = {}
    /\ streakNext = 1

\* models.py 194-195 through Model.full_clean: the two PositiveIntegerFields
\* are validated one by one.
Streak_full_clean(row) == row.current_streak >= 0 /\ row.longest_streak >= 0

\* admin.py 215-219: StreakAdmin is a plain ModelAdmin, its add form takes
\* every field of the row; the streak is filed under the habit's owner.
admin_streak_add(habit, current, longest, last) ==
    /\ streakNext <= MaxStreakRows
    /\ habit \in DOMAIN habits
    /\ LET row == [pk |-> streakNext, user |-> habits[habit].user, habit |-> habit,
                   current_streak |-> current, longest_streak |-> longest,
                   last_completed |-> last]
       IN  /\ Streak_full_clean(row)
           /\ streaks' = streaks \cup {row}
    /\ streakNext' = streakNext + 1
    /\ UNCHANGED notStreak

\* admin.py 215-219: the change form of a stored streak
admin_streak_change(pk, current, longest, last) ==
    /\ \E r \in streaks : r.pk = pk
    /\ LET old == CHOOSE r \in streaks : r.pk = pk
           row == [old EXCEPT !.current_streak = current, !.longest_streak = longest,
                              !.last_completed = last]
       IN  /\ row # old
           /\ Streak_full_clean(row)
           /\ streaks' = (streaks \ {old}) \cup {row}
    /\ UNCHANGED <<streakNext, notStreak>>

StreakNext ==
    \/ next_day
    \/ \E h \in DOMAIN Habits, c \in StreakLengths, l \in StreakLengths, d \in 0..MaxDay :
          admin_streak_add(h, c, l, d)
    \/ \E pk \in 1..MaxStreakRows, c \in StreakLengths, l \in StreakLengths, d \in 0..MaxDay :
          admin_streak_change(pk, c, l, d)

\* ======================================================================
\* Badges
\* ======================================================================

\* The Badge table: id |-> [points_required] (models.py 209-212; rows come
\* from the admin).
Badges == [id \in 1..2 |-> [points_required |-> id]]

BadgeInit ==
    /\ user_badges = {}
    /\ ubNext = 1

\* models.py 227 through Model.validate_unique, run by the admin's form
UserBadge_validate_unique(user, badge) ==
    ~\E r \in user_badges : r.user = user /\ r.badge = badge

\* admin.py 233-239: UserBadgeAdmin, a plain ModelAdmin; the only place of
\* the repository that creates a UserBadge.
admin_user_badge_add(user, badge) ==
    /\ UserBadge_validate_unique(user, badge)
    /\ user_badges' = user_badges \cup {[pk |-> ubNext, user |-> user, badge |-> badge]}
    /\ ubNext' = ubNext + 1
    /\ UNCHANGED <<rewardVars, notBadge>>

\* admin.py 47 (the points field of UserAdmin's form) and models.py 52-56
admin_user_change(user, userPoints) ==
    /\ userPoints # points[user]
    /\ User_full_clean(userPoints)
    /\ points' = [points EXCEPT ![user] = userPoints]
    /\ UNCHANGED <<points0, spent, claimed_by, is_claimed, rpc, rreq, rres, badgeVars, notBadge>>

\* the operations that change points, one request at a time, and the admin's
\* UserBadge form
BadgeNext ==
    \/ \E u \in Users, pk \in RewardPks : reward_claim(1, u, pk)
    \/ reward_claim_save(1)
    \/ \E u \in Users, n \in 0..MaxPoints : admin_user_change(u, n)
    \/ \E u \in Users, b \in DOMAIN Badges : admin_user_badge_add(u, b)

\* Habits with their logs and streaks: a log_add request for today, the
\* admin adding streak rows with the model's defaults (models.py 196-197,
\* 200), and habit_delete.
CascadeNext ==
    \/ \E u \in Users, h \in HabitIds : log_add(1, u, h)
    \/ \E h \in DOMAIN Habits, pr \in 0..MaxProgress : log_add_form(1, h, today, "pending", pr)
    \/ HabitLog_save(1)
    \/ \E h \in DOMAIN Habits : admin_streak_add(h, 0, 0, 0)
    \/ \E u \in Users, pk \in HabitIds : habit_delete(u, pk)

\* The log requests of one day, one at a time, in a database that holds
\* streaks, points and badges: the admin files a streak of length 1 under a
\* habit, gives alice a point and the first badge.
LogFrameNext ==
    \/ \E u \in Users, h \in HabitIds : log_add(1, u, h)
    \/ \E h \in DOMAIN Habits, pr \in 0..MaxProgress : log_add_form(1, h, today, "pending", pr)
    \/ \E u \in Users, pk \in 1..MaxLogs : log_edit(1, u, pk)
    \/ \E h \in DOMAIN Habits, pr \in 0..MaxProgress : log_edit_form(1, h, today, "pending", pr)
    \/ HabitLog_save(1)
    \/ \E h \in DOMAIN Habits : admin_streak_add(h, 1, 1, today)
    \/ admin_user_change("alice", 1)
    \/ admin_user_badge_add("alice", 1)

\* The log requests of one day, one at a time, and habit_edit posting a new
\* target for a daily habit without an end date.
LogTargetNext ==
    \/ \E u \in Users, h \in HabitIds : log_add(1, u, h)
    \/ \E h \in DOMAIN Habits, pr \in 0..MaxProgress : log_add_form(1, h, today, "pending", pr)
    \/ \E u \in Users, pk \in 1..MaxLogs : log_edit(1, u, pk)
    \/ \E h \in DOMAIN Habits, pr \in 0..MaxProgress : log_edit_form(1, h, today, "pending", pr)
    \/ HabitLog_save(1)
    \/ \E u \in Users, pk \in HabitIds, t \in TargetValues : habit_edit(u, pk, "daily", t, 1, 0)

\* one request at a time
LogNext ==
    \/ next_day
    \/ \E u \in Users, h \in HabitIds : log_add(1, u, h)
    \/ \E h \in DOMAIN Habits, d \in 1..MaxDay, s \in STATUS_CHOICES, pr \in 0..MaxProgress :
          log_add_form(1, h, d, s, pr)
    \/ \E u \in Users, pk \in 1..MaxLogs : log_edit(1, u, pk)
    \/ \E h \in DOMAIN Habits, d \in 1..MaxDay, s \in STATUS_CHOICES, pr \in 0..MaxProgress :
          log_edit_form(1, h, d, s, pr)
    \/ HabitLog_save(1)

\* What a submission can post beside the progress: one request at a time
\* with any status, dated today or tomorrow, and the admin's inline form
\* with any completed and status.
LogStatusNext ==
    \/ \E u \in Users, h \in HabitIds : log_add(1, u, h)
    \/ \E h \in DOMAIN Habits, d \in {today, today + 1}, s \in STATUS_CHOICES,
          pr \in 0..MaxProgress : log_add_form(1, h, d, s, pr)
    \/ \E u \in Users, pk \in 1..MaxLogs : log_edit(1, u, pk)
    \/ \E h \in DOMAIN Habits, d \in {today, today + 1}, s \in STATUS_CHOICES,
          pr \in 0..MaxProgress : log_edit_form(1, h, d, s, pr)
    \/ HabitLog_save(1)
    \/ \E pk \in 1..MaxLogs, pr \in 0..MaxProgress, c \in BOOLEAN, s \in STATUS_CHOICES :
          admin_log_change(pk, pr, c, s)

\* Two requests, their database statements interleaved, on one day.  The
\* posted date is today's (the form's initial value, views.py 463-464,
\* 507-508) or tomorrow's, the posted status is the form's initial 'pending'
\* (views.py 466-467, 510-511), which HabitLog.save overwrites, and the
\* posted progress is one every habit accepts, so that each request gets as
\* far as its write.
LogRaceNext ==
    \/ \E p \in Procs, u \in Users, h \in HabitIds : log_add(p, u, h)
    \/ \E p \in Procs, h \in DOMAIN Habits, d \in {today, today + 1}, pr \in {0, 1} :
          log_add_form(p, h, d, "pending", pr)
    \/ \E p \in Procs, u \in Users, pk \in 1..MaxLogs : log_edit(p, u, pk)
    \/ \E p \in Procs, h \in DOMAIN Habits, d \in {today, today + 1}, pr \in {0, 1} :
          log_edit_form(p, h, d, "pending", pr)
    \/ \E p \in Procs : HabitLog_save(p)

\* ------------------------------------------------------ challenge progress
\* models.py 310-326: the Challenge rows the progress rows refer to
Challenges == {1, 2}

\* models.py 332-336: the bounds of the validators on progress
MinPercent == 0
MaxPercent == 100

\* the percentages an admin posts: the bounds, one in between, one above
ProgressValues == {MinPercent, 50, MaxPercent, MaxPercent + 1}

ChallengeInit ==
    /\ challenge_progress = {}
    /\ cpNext = 1

\* models.py 332-336: MinValueValidator(0), MaxValueValidator(100)
progress_validators(progress) == progress >= MinPercent /\ progress <= MaxPercent

\* models.py 340: unique_together = ("challenge", "user")
ChallengeProgress_validate_unique(pk, challenge, user) ==
    ~\E r \in challenge_progress : r.pk # pk /\ r.challenge = challenge /\ r.user = user

\* admin.py 294-299: the add form of ChallengeProgressAdmin; the model has
\* no clean and no save of its own, the row is stored as posted.
admin_challenge_progress_add(challenge, user, progress, completed) ==
    /\ progress_validators(progress)
    /\ ChallengeProgress_validate_unique(cpNext, challenge, user)
    /\ challenge_progress' = challenge_progress \cup
           {[pk |-> cpNext, challenge |-> challenge, user |-> user,
             progress |-> progress, completed |-> completed]}
    /\ cpNext' = cpNext + 1
    /\ UNCHANGED notChallenge

\* admin.py 294-299: the change form of ChallengeProgressAdmin
admin_challenge_progress_change(pk, progress, completed) ==
    /\ \E r \in challenge_progress : r.pk = pk
    /\ progress_validators(progress)
    /\ LET old == CHOOSE r \in challenge_progress : r.pk = pk
       IN  challenge_progress' = (challenge_progress \ {old}) \cup
              {[old EXCEPT !.progress = progress, !.completed = completed]}
    /\ UNCHANGED <<cpNext, notChallenge>>

ChallengeNext ==
    \/ \E c \in Challenges, u \in Users, pr \in ProgressValues, b \in BOOLEAN :
          admin_challenge_progress_add(c, u, pr, b)
    \/ \E pk \in 1..4, pr \in ProgressValues, b \in BOOLEAN :
          admin_challenge_progress_change(pk, pr, b)

\* ------------------------------------------------------------ notifications
\* no Notification instance
NoNotif == [pk |-> 0, user |-> "", is_read |-> FALSE]

NotifInit ==
    /\ notifications = {}
    /\ notifNext = 1
    /\ npc = [p \in Procs |-> "idle"]
    /\ nreq = [p \in Procs |-> NoNotif]
    /\ nres = "none"

\* admin.py 249-255: NotificationAdmin's add form; no view creates a
\* Notification.
admin_notification_add(user, is_read) ==
    /\ notifNext <= MaxNotifications
    /\ notifications' = notifications \cup {[pk |-> notifNext, user |-> user, is_read |-> is_read]}
    /\ notifNext' = notifNext + 1
    /\ UNCHANGED <<npc, nreq, nres, notNotif>>

\* views.py 206-208: get_object_or_404(Notification, pk=pk, user=request.user)
notification_mark_read(p, u, pk) ==
    /\ npc[p] = "idle"
    /\ IF \E r \in notifications : r.pk = pk /\ r.user = u
       THEN /\ nreq' = [nreq EXCEPT ![p] = CHOOSE r \in notifications : r.pk = pk /\ r.user = u]
            /\ npc' = [npc EXCEPT ![p] = "save"]
            /\ nres' = "none"
       ELSE /\ nres' = "notfound"
            /\ UNCHANGED <<npc, nreq>>
    /\ UNCHANGED <<notifications, notifNext, notNotif>>

\* views.py 209-211: notif.is_read = True; notif.save() writes every field of
\* the instance into the row with its pk, and inserts that row when a
\* notification_delete has removed it since it was loaded.
notification_mark_read_save(p) ==
    /\ npc[p] = "save"
    /\ notifications' = {r \in notifications : r.pk # nreq[p].pk}
                           \cup {[nreq[p] EXCEPT !.is_read = TRUE]}
    /\ npc' = [npc EXCEPT ![p] = "idle"]
    /\ nreq' = [nreq EXCEPT ![p] = NoNotif]
    /\ nres' = "read"
    /\ UNCHANGED <<notifNext, notNotif>>

notification_mark_all_read_Everyone(u) ==
    /\ notifications' = {[r EXCEPT !.is_read = TRUE] : r \in notifications}
    /\ nres' = "all_read"
    /\ UNCHANGED <<notifNext, npc, nreq, notNotif>>

\* views.py 213-216: one UPDATE of the requester's unread notifications
notification_mark_all_read(u) ==
    /\ notifications' = {IF r.user = u /\ r.is_read = FALSE
                           THEN [r EXCEPT !.is_read = TRUE] ELSE r : r \in notifications}
    /\ nres' = "all_read"
    /\ UNCHANGED <<notifNext, npc, nreq, notNotif>>

\* views.py 218-222: get_object_or_404 on (pk, user), then notif.delete(),
\* a DELETE of the row with that pk; the row's owner never changes, so the
\* two statements are taken as one step.
notification_delete(u, pk) ==
    /\ IF \E r \in notifications : r.pk = pk /\ r.user = u
       THEN /\ notifications' = {r \in notifications : r.pk # pk}
            /\ nres' = "deleted"
       ELSE /\ nres' = "notfound"
            /\ UNCHANGED notifications
    /\ UNCHANGED <<notifNext, npc, nreq, notNotif>>

\* a notification_mark_read in progress next to the other notification
\* requests of both users
NotifNext ==
    \/ \E u \in Users, b \in BOOLEAN : admin_notification_add(u, b)
    \/ \E u \in Users, pk \in 1..MaxNotifications : notification_mark_read(1, u, pk)
    \/ notification_mark_read_save(1)
    \/ \E u \in Users : notification_mark_all_read(u)
    \/ \E u \in Users, pk \in 1..MaxNotifications : notification_delete(u, pk)

\* --------------------------------------------------------- specifications
InitReward == RewardInit(0..MaxPoints) /\ FriendInit /\ LogInit /\ HabitInit /\ StreakInit /\ BadgeInit /\ ChallengeInit /\ NotifInit

InitFriend == RewardInit({0}) /\ FriendInit /\ LogInit /\ HabitInit /\ StreakInit /\ BadgeInit /\ ChallengeInit /\ NotifInit

InitLog == RewardInit({0}) /\ FriendInit /\ LogInit /\ HabitInit /\ StreakInit /\ BadgeInit /\ ChallengeInit /\ NotifInit

InitHabit == RewardInit({0}) /\ FriendInit /\ LogInit /\ HabitInit /\ StreakInit /\ BadgeInit /\ ChallengeInit /\ NotifInit

InitCascade == RewardInit({0}) /\ FriendInit /\ LogInit /\ HabitInit /\ StreakInit /\ BadgeInit /\ ChallengeInit /\ NotifInit

InitBadge == RewardInit({0}) /\ FriendInit /\ LogInit /\ HabitInit /\ StreakInit /\ BadgeInit /\ ChallengeInit /\ NotifInit

InitStreak == RewardInit({0}) /\ FriendInit /\ LogInit /\ HabitInit /\ StreakInit /\ BadgeInit /\ ChallengeInit /\ NotifInit

SpecReward == InitReward /\ [][RewardNext]_vars

SpecFriend == InitFriend /\ [][FriendNext]_vars

\* friend_request_reject in both request slots next to the admin's add form
\* and an accept in the first slot: a reject meets other stored requests,
\* stored friendships and an accept of the same request in progress.
RejectNext ==
    \/ \E f \in Users, t \in Users : admin_add_friend_request(f, t)
    \/ \E u \in Users, pk \in 1..MaxRequests : friend_request_accept(1, u, pk)
    \/ friend_request_accept_1(1)
    \/ friend_request_accept_2(1)
    \/ friend_request_accept_3(1)
    \/ \E p \in Procs, u \in Users, pk \in 1..MaxRequests : friend_request_reject(p, u, pk)
    \/ \E p \in Procs : friend_request_reject_1(p)

SpecReject == InitFriend /\ [][RejectNext]_vars

SpecLog == InitLog /\ [][LogNext]_vars

SpecLogRace == InitLog /\ [][LogRaceNext]_vars

SpecLogStatus == InitLog /\ [][LogStatusNext]_vars

SpecLogFrame == InitLog /\ [][LogFrameNext]_vars

SpecLogTarget == InitLog /\ [][LogTargetNext]_vars

SpecStreak == InitStreak /\ [][StreakNext]_vars

SpecHabit == InitHabit /\ [][HabitNext]_vars

SpecCascade == InitCascade /\ [][CascadeNext]_vars

SpecBadge == InitBadge /\ [][BadgeNext]_vars

InitChallenge == RewardInit({0}) /\ FriendInit /\ LogInit /\ HabitInit /\ StreakInit /\ BadgeInit /\ ChallengeInit /\ NotifInit

SpecChallenge == InitChallenge /\ [][ChallengeNext]_vars

InitNotif == RewardInit({0}) /\ FriendInit /\ LogInit /\ HabitInit /\ StreakInit /\ BadgeInit /\ ChallengeInit /\ NotifInit

SpecNotif == InitNotif /\ [][NotifNext]_vars

\* ---------------------------------------------------------------- claims

\* C1: every row that a HabitLog.save writes (through log_add or log_edit)
\* has completed = (progress >= its habit's target_per_day), and status
\* 'done' exactly when completed, otherwise 'pending'.
C1_SaveDerivesCompletedAndStatus ==
    [][\A r \in logs' \ logs :
         /\ r.completed = (r.progress >= habits[r.habit].target_per_day)
         /\ r.status = (IF r.completed THEN "done" ELSE "pending")]_vars

C1_Witness ==
    /\ lres = "saved"
    /\ \E r1, r2 \in logs :
          /\ r1.completed /\ r1.status = "done"
          /\ ~r2.completed /\ r2.status = "pending" /\ r2.progress > 0

\* C2: a log_add or log_edit whose posted progress is above the
\* target_per_day of the habit the log would be saved under (the URL's habit
\* for log_add, the posted habit for log_edit) ends with the progress
\* validation error and leaves the stored logs as they were; no stored log
\* has progress above its habit's target.
C2_ProgressAboveTargetRejected ==
    /\ [](\A r \in logs : r.progress <= habits[r.habit].target_per_day)
    /\ [][\A p \in Procs :
            lpc[p] \in {"add_form", "edit_form"} =>
                \/ /\ logs' = logs
                   /\ lpc'[p] = "idle"
                   /\ lres' = "progress_exceeds_target"
                \/ \A h \in DOMAIN Habits, pr \in 0..MaxProgress :
                     pr > (IF lpc[p] = "add_form" THEN lhabit[p] ELSE habits[h]).target_per_day =>
                        \A d \in 1..MaxDay, s \in STATUS_CHOICES :
                            ~(log_add_form(p, h, d, s, pr) \/ log_edit_form(p, h, d, s, pr))]_vars

C2_Witness ==
    /\ lres = "progress_exceeds_target"
    /\ logs # {}
    /\ \A p \in Procs : lpc[p] = "idle"

\* C3: at most one stored HabitLog per (habit, date), also when two requests
\* interleave; a stored row changes only through a save of that very row
\* (same pk), and a write that meets another row with its (habit, date)
\* ends in an error and stores nothing.
C3_OneLogPerHabitAndDate ==
    /\ [](\A r1, r2 \in logs :
             (r1.pk = r2.pk \/ (r1.habit = r2.habit /\ r1.date = r2.date)) => r1 = r2)
    /\ [][/\ \A r \in logs :
               r \in logs' \/ \E p \in Procs : HabitLog_save(p) /\ lreq[p].pk = r.pk
          /\ \A p \in Procs :
               (/\ HabitLog_save(p)
                /\ \E r \in logs : r.habit = lreq[p].habit /\ r.date = lreq[p].date
                                    /\ r.pk # lreq[p].pk)
                  => logs' = logs /\ lres' = "IntegrityError"]_vars

\* the second of two racing writes was refused by the unique index
C3_Witness ==
    /\ lres = "IntegrityError"
    /\ logs # {}

\* C4: a reward_claim by a user whose points are below the reward's
\* points_required leaves the points and the claim state (claimed_by,
\* is_claimed) unchanged and ends the request with the error message.
C4_InsufficientPointsRejected ==
    [][\A p \in Procs, u \in Users, pk \in DOMAIN Rewards :
         (reward_claim(p, u, pk) /\ points[u] < Rewards[pk].points_required)
            => /\ points' = points
               /\ claimed_by' = claimed_by
               /\ is_claimed' = is_claimed
               /\ rpc'[p] = "idle"
               /\ rres'[p] = "error"]_vars

C4_Witness ==
    \E p \in Procs :
        /\ rres[p] = "error"
        /\ rreq[p].pk \in DOMAIN Rewards
        /\ points[rreq[p].user] < Rewards[rreq[p].pk].points_required
        /\ points[rreq[p].user] = points0[rreq[p].user]

HasFriendship(u, f) == \E r \in friendships : r.user = u /\ r.friend = f

\* C7: once friend_request_accept of a request from A to B, performed by B,
\* has ended with its success message, the Friendship rows (A, B) and (B, A)
\* both exist and the FriendRequest row is gone.
C7_AcceptCreatesBothDirections ==
    \A p \in Procs :
        (fpc[p] = "idle" /\ freq[p].op = "accept" /\ fres[p] = "success") =>
            /\ HasFriendship(freq[p].from_user, freq[p].user)
            /\ HasFriendship(freq[p].user, freq[p].from_user)
            /\ ~\E r \in friend_requests : r.pk = freq[p].pk

C7_Witness ==
    \E p \in Procs :
        /\ fpc[p] = "idle" /\ freq[p].op = "accept" /\ fres[p] = "success"
        /\ freq[p].from_user = "alice" /\ freq[p].user = "bob"
        /\ Cardinality(friendships) = 2

\* C8: acceptance is atomic: in every state the Friendship relation is
\* symmetric (never exactly one of the two directed rows), and the two rows
\* of a pair never exist together with the request being accepted.
C8_AcceptIsAtomic ==
    /\ \A r \in friendships : HasFriendship(r.friend, r.user)
    /\ \A p \in Procs :
          fpc[p] \in {"accept1", "accept2", "accept3"} =>
              ~(/\ HasFriendship(freq[p].from_user, freq[p].user)
                /\ HasFriendship(freq[p].user, freq[p].from_user)
                /\ \E r \in friend_requests : r.pk = freq[p].pk)

\* C9: no Friendship row has user = friend, and no two Friendship rows share
\* their (user, friend) pair.
C9_NoSelfNoDuplicateFriendship ==
    /\ \A r \in friendships : r.user # r.friend
    /\ \A r1, r2 \in friendships :
          (r1.user = r2.user /\ r1.friend = r2.friend) => r1.pk = r2.pk

\* two requests accepted the same FriendRequest: the second one's
\* get_or_create calls found the rows of the first
C9_Witness ==
    /\ \A p \in Procs : fpc[p] = "idle" /\ freq[p].op = "accept" /\ fres[p] = "success"
    /\ \A p, q \in Procs : freq[p].pk = freq[q].pk
    /\ Cardinality(friendships) = 2

\* C10: friend_request_send aimed at the sender, at a user the sender has
\* already sent a request to, or at a user who is already the sender's
\* friend ends with a reported validation error and creates no row.
C10_SendRejectsSelfAndDuplicates ==
    [][\A p \in Procs, u \in Users, e \in Users :
         (/\ friend_request_send(p, u, e)
          /\ \/ e = u
             \/ \E r \in friend_requests : r.from_user = u /\ r.to_user = e
             \/ HasFriendship(u, e))
            => /\ fres'[p] = "invalid"
               /\ friend_requests' = friend_requests]_vars

\* C5: after a reward_claim request the debit and the claim go together:
\* the request committed its debit of points exactly when the reward is
\* recorded as claimed by that user.
C5_DebitAtomicWithClaim ==
    \A p \in Procs :
        rpc[p] = "idle" =>
            (rreq[p].debited <=> <<rreq[p].pk, rreq[p].user>> \in claimed_by)

\* C6: once the reward_claim requests have all ended, every user's points
\* equal the initial points minus the points_required of the requests that
\* reported success.
C6_NoLostUpdate ==
    (\A p \in Procs : rpc[p] = "idle") =>
        \A u \in Users : points[u] = points0[u] - spent[u]

\* C11: a friend_request_reject finds the request only for its recipient,
\* and its delete removes the FriendRequest row with the addressed pk and
\* nothing else: the other FriendRequest rows and all Friendship rows stay
\* as they were; a reject by anyone else changes no row.  The requester and
\* the pk of a reject that starts are the ones it records in freq.
C11_RejectDeletesOnlyTheRequest ==
    [][\A p \in Procs :
         /\ friend_request_reject_1(p) =>
               /\ friendships' = friendships
               /\ friend_requests' = {r \in friend_requests : r.pk # freq[p].pk}
               /\ \A r \in friend_requests \ friend_requests' : r.to_user = freq[p].user
         /\ (fpc[p] = "idle" /\ freq'[p].op = "reject" /\ <<freq'[p], fres'[p], fpc'[p]>> # <<freq[p], fres[p], fpc[p]>>) =>
               LET u == freq'[p].user
                   pk == freq'[p].pk
               IN  friend_request_reject(p, u, pk) =>
                      /\ friendships' = friendships
                      /\ friend_requests' = friend_requests
                      /\ (~\E r \in friend_requests : r.pk = pk /\ r.to_user = u)
                            => fpc'[p] = "idle" /\ fres'[p] = "notfound"]_vars

\* a reject has ended while another request to the same recipient and a
\* friendship are stored
C11_Witness ==
    \E p \in Procs :
        /\ fpc[p] = "idle" /\ freq[p].op = "reject" /\ fres[p] = "rejected"
        /\ \E r \in friend_requests : r.to_user = freq[p].user /\ r.pk # freq[p].pk
        /\ friendships # {}

\* C12: every Streak row has longest_streak >= current_streak, in every
\* state, whatever wrote the row.
C12_LongestAtLeastCurrent ==
    \A r \in streaks : r.longest_streak >= r.current_streak

\* C13: a save that stores a completed log of a daily habit leaves a Streak
\* row of that habit and its owner with last_completed = the log's date and
\* current_streak >= 1: 1 when there was no streak or no earlier completion,
\* one more than before when last_completed was the previous day.
C13_CompletedLogUpdatesStreak ==
    [][\A p \in Procs :
         (/\ HabitLog_save(p)
          /\ lres' = "saved"
          /\ lreq[p].completed
          /\ habits[lreq[p].habit].frequency = "daily")
            => \E s \in streaks' :
                  /\ s.habit = lreq[p].habit
                  /\ s.user = habits[lreq[p].habit].user
                  /\ s.last_completed = lreq[p].date
                  /\ s.current_streak >= 1
                  /\ \A o \in streaks :
                        o.pk = s.pk =>
                           /\ o.last_completed = 0 => s.current_streak = 1
                           /\ (o.last_completed # 0 /\ o.last_completed = lreq[p].date - 1)
                                 => s.current_streak = o.current_streak + 1
                  /\ (~\E o \in streaks : o.pk = s.pk) => s.current_streak = 1]_vars

\* C14: a streak with current_streak >= 1 has no missed day behind it: no
\* day after its last completion has passed without a completed log of its
\* habit (once such a day has passed, current_streak is 0).
C14_MissedDayResetsCurrent ==
    \A r \in streaks :
        (/\ habits[r.habit].frequency = "daily"
         /\ \E d \in 1..MaxDay :
               /\ r.last_completed < d /\ d < today
               /\ ~\E l \in logs : l.habit = r.habit /\ l.date = d /\ l.completed)
           => r.current_streak = 0

\* C15: once an operation has changed a user's points, the user holds
\* exactly one UserBadge for every badge whose points_required the new
\* points reach; no two UserBadge rows share their (user, badge).
C15_BadgeAwardedOnceAtThreshold ==
    /\ [](\A r1, r2 \in user_badges :
             (r1.user = r2.user /\ r1.badge = r2.badge) => r1 = r2)
    /\ [][\A u \in Users :
            points'[u] # points[u] =>
               \A b \in DOMAIN Badges :
                  Badges[b].points_required <= points'[u] =>
                     Cardinality({r \in user_badges' : r.user = u /\ r.badge = b}) = 1]_vars

\* C16: a stored log keeps its habit and its date: whatever a log_edit
\* posts, the row with a given pk has the same (habit, date) after every
\* step as before it.
C16_LogIdentityImmutable ==
    [][\A r \in logs, r2 \in logs' :
         r.pk = r2.pk => (r2.habit = r.habit /\ r2.date = r.date)]_vars

\* C17: what a log submission stores does not depend on the submitted
\* status (nor, through the admin's inline form, on the submitted
\* completed): a step of log_add, log_edit or the inline form with one
\* submitted status is the very step taken with any other, the other posted
\* values being equal; stored logs of one habit with equal progress have
\* equal completed and status.
C17_StatusNotSettable ==
    /\ [](\A r1, r2 \in logs :
             (r1.habit = r2.habit /\ r1.progress = r2.progress)
                => (r1.completed = r2.completed /\ r1.status = r2.status))
    /\ [][/\ \A p \in Procs :
               (lpc[p] \in {"add_form", "edit_form"} /\ lpc'[p] # lpc[p]) =>
                  \A h \in DOMAIN Habits, d \in {today, today + 1}, pr \in 0..MaxProgress,
                     s1 \in STATUS_CHOICES :
                     /\ log_add_form(p, h, d, s1, pr)
                           => \A s2 \in STATUS_CHOICES : log_add_form(p, h, d, s2, pr)
                     /\ log_edit_form(p, h, d, s1, pr)
                           => \A s2 \in STATUS_CHOICES : log_edit_form(p, h, d, s2, pr)
          /\ (logs' # logs /\ lpc' = lpc) =>
                  \A pk \in 1..MaxLogs, pr \in 0..MaxProgress, c1 \in BOOLEAN,
                     s1 \in STATUS_CHOICES :
                     admin_log_change(pk, pr, c1, s1)
                        => \A c2 \in BOOLEAN, s2 \in STATUS_CHOICES :
                              admin_log_change(pk, pr, c2, s2)]_vars

\* two stored logs of one habit with equal progress, one submitted as
\* 'done' and one as 'pending' (progress below the target: both 'pending')
C17_Witness ==
    /\ lres = "saved"
    /\ \E r1, r2 \in logs :
          /\ r1.pk # r2.pk /\ r1.habit = r2.habit /\ r1.progress = r2.progress
          /\ r1.progress > 0 /\ ~r1.completed /\ r1.status = "pending"

C19_CompletedIffFull ==
    \A r \in challenge_progress :
       /\ r.progress \in 0..100
       /\ r.completed = (r.progress = 100)

\* C20: a habit_delete by the owner removes the habit and exactly the
\* HabitLog and Streak rows of that habit, every other habit, log and streak
\* staying as it was; in every state each log and each streak refers to a
\* stored habit.
C20_DeleteCascades ==
    /\ [](\A r \in logs : r.habit \in DOMAIN habits)
    /\ [](\A r \in streaks : r.habit \in DOMAIN habits)
    /\ [][\A u \in Users, pk \in HabitIds :
            (habit_delete(u, pk) /\ pk \in DOMAIN habits /\ habits[pk].user = u)
               => /\ DOMAIN habits' = DOMAIN habits \ {pk}
                  /\ \A id \in DOMAIN habits' : habits'[id] = habits[id]
                  /\ logs' = {r \in logs : r.habit # pk}
                  /\ streaks' = {r \in streaks : r.habit # pk}]_vars

\* a habit with a log and a streak was deleted, a log and a streak of the
\* other habit are still stored
C20_Witness ==
    /\ hres = "deleted"
    /\ Cardinality(DOMAIN habits) = 1
    /\ logNext = 3 /\ Cardinality(logs) = 1
    /\ streakNext = 3 /\ Cardinality(streaks) = 1

\* C21: submitting a log for the same habit and day twice is idempotent.  A
\* log_add by the owner for a habit that has a log dated today is redirected
\* and creates no row; a save that writes a stored log again with the habit,
\* date and progress it has leaves the logs and the streaks as they were.
C21_SameDayTwiceIdempotent ==
    [][\A p \in Procs :
         /\ lpc[p] = "idle" =>
               \A u \in Users, h \in HabitIds :
                  (/\ h \in DOMAIN habits
                   /\ habits[h].user = u
                   /\ \E r \in logs : r.habit = h /\ r.date = today
                   /\ log_add(p, u, h))
                     => lres' = "redirect" /\ logs' = logs /\ lpc' = lpc /\ streaks' = streaks
         /\ (/\ lpc[p] = "write"
             /\ \E r \in logs : /\ r.pk = lreq[p].pk /\ r.habit = lreq[p].habit
                                  /\ r.date = lreq[p].date /\ r.progress = lreq[p].progress
             /\ HabitLog_save(p))
               => logs' = logs /\ logNext' = logNext /\ streaks' = streaks /\ lres' = "saved"]_vars

\* the second log_add of the day has been redirected: the habit has its one
\* completed log of today and a streak
C21_Witness ==
    /\ lres = "redirect"
    /\ \E r \in logs :
          /\ r.date = today /\ r.completed
          /\ \A r2 \in logs : (r2.habit = r.habit /\ r2.date = r.date) => r2 = r
          /\ \E st \in streaks : st.habit = r.habit /\ st.current_streak = 1

\* C22: owner scoping.  The log a log_add or log_edit request of user U goes
\* on to write is attached to a habit of U (U is the owner of the habit the
\* request loaded), and a habit_edit or habit_delete of U changes or removes
\* habits of U only and removes logs of U's habits only.
C22_OwnerScoping ==
    [][/\ \A p \in Procs :
            /\ (lpc[p] = "edit_form" /\ lpc'[p] = "write") =>
                  habits[lreq'[p].habit].user = habits[lreq[p].habit].user
            /\ (lpc[p] = "add_form" /\ lpc'[p] = "write") =>
                  habits[lreq'[p].habit].user = lhabit[p].user
       /\ habits' # habits =>
            \A u \in Users, pk \in HabitIds :
               (\/ habit_delete(u, pk)
                \/ \E f \in FREQUENCY_CHOICES, t \in TargetValues, s \in HabitDates,
                      e \in {0} \cup HabitDates : habit_edit(u, pk, f, t, s, e))
                  => /\ \A id \in DOMAIN habits :
                          (id \notin DOMAIN habits' \/ habits'[id] # habits[id])
                             => habits[id].user = u
                     /\ \A r \in logs \ logs' : habits[r.habit].user = u]_vars

\* C23: friend_remove removes both sides of a friendship.  When user u
\* removes the Friendship row pk of (u, f), the rows (u, f) and (f, u) are
\* gone afterwards and every other Friendship row is as it was.
C23_RemoveBothSides ==
    [][\A p \in Procs :
         (fpc[p] = "idle" /\ freq'[p].op = "remove") =>
            LET u == freq'[p].user
                pk == freq'[p].pk
            IN  (/\ \E r \in friendships : r.pk = pk /\ r.user = u
                 /\ friend_remove(p, u, pk))
                   => LET fs == CHOOSE r \in friendships : r.pk = pk /\ r.user = u
                      IN  friendships' = {r \in friendships :
                                             /\ ~(r.user = fs.user /\ r.friend = fs.friend)
                                             /\ ~(r.user = fs.friend /\ r.friend = fs.user)}]_vars

\* C24: notification_mark_all_read by user u sets is_read on every
\* notification of u and changes no notification of another user;
\* notification_mark_read and notification_delete act on a notification of
\* the requester only (anyone else is answered not found) and leave every
\* other notification as it was.
C24_NotificationsOwnerScoped ==
    [][/\ \A u \in Users :
            notification_mark_all_read(u) =>
               /\ \A r \in notifications' : r.user = u => r.is_read
               /\ \A r \in notifications : r.user # u => r \in notifications'
               /\ {r.pk : r \in notifications'} = {r.pk : r \in notifications}
               /\ \A r \in notifications, r2 \in notifications' : r.pk = r2.pk => r.user = r2.user
       /\ \A u \in Users, pk \in 1..MaxNotifications :
            /\ notification_delete(u, pk) =>
                  IF \E r \in notifications : r.pk = pk /\ r.user = u
                  THEN notifications' = {r \in notifications : r.pk # pk}
                  ELSE notifications' = notifications /\ nres' = "notfound"
            /\ \A p \in Procs :
                  notification_mark_read(p, u, pk) =>
                     /\ notifications' = notifications
                     /\ (~\E r \in notifications : r.pk = pk /\ r.user = u)
                           => npc'[p] = "idle" /\ nres' = "notfound"
                     /\ npc'[p] = "save" => nreq'[p].pk = pk /\ nreq'[p].user = u
       /\ \A p \in Procs :
            notification_mark_read_save(p) =>
               /\ {r \in notifications' : r.pk # nreq[p].pk} = {r \in notifications : r.pk # nreq[p].pk}
               /\ \A r \in notifications' : r.pk = nreq[p].pk => r.user = nreq[p].user /\ r.is_read]_vars

\* alice has marked all read while bob holds an unread notification
C24_Witness ==
    /\ nres = "all_read"
    /\ \E r \in notifications : r.user = "bob" /\ ~r.is_read
    /\ \E r \in notifications : r.user = "alice" /\ r.is_read
    /\ notifNext > 2

\* C25: only the recipient of a friend request can resolve it.  A
\* friend_request_accept or friend_request_reject for a stored request by a
\* user who is not its to_user (its sender included) ends as not found and
\* leaves the FriendRequest and Friendship rows as they were; a request
\* that goes on was issued by the to_user of the row it loaded.
C25_OnlyRecipientResolves ==
    [][\A p \in Procs :
         (/\ fpc[p] = "idle"
          /\ freq'[p].op \in {"accept", "reject"}
          /\ <<freq'[p], fres'[p], fpc'[p]>> # <<freq[p], fres[p], fpc[p]>>) =>
            LET u == freq'[p].user
                pk == freq'[p].pk
            IN  (friend_request_accept(p, u, pk) \/ friend_request_reject(p, u, pk)) =>
                   /\ (\E r \in friend_requests : r.pk = pk /\ r.to_user # u) =>
                         /\ fres'[p] = "notfound"
                         /\ fpc'[p] = "idle"
                         /\ friend_requests' = friend_requests
                         /\ friendships' = friendships
                   /\ fpc'[p] # "idle" =>
                         \E r \in friend_requests : r.pk = pk /\ r.to_user = u]_vars

\* the sender of a stored request tried to accept it and was answered not
\* found; the request is still there and no friendship exists
C25_Witness ==
    \E p \in Procs :
        /\ fpc[p] = "idle" /\ freq[p].op = "accept" /\ fres[p] = "notfound"
        /\ \E r \in friend_requests : r.pk = freq[p].pk /\ r.from_user = freq[p].user
        /\ friendships = {}

\* C26: saving a log changes only that log.  A step of a log_add or log_edit
\* request (the request's position, its instance, its outcome or the logs
\* change) leaves the habits, status included, every Streak row, the users'
\* points and the UserBadge rows as they were, and the logs differ in the
\* row of the saved log at most.
C26_LogSaveChangesOnlyTheLog ==
    [][(lpc' # lpc \/ lreq' # lreq \/ lres' # lres \/ logs' # logs) =>
          /\ habits' = habits
          /\ streaks' = streaks
          /\ points' = points
          /\ user_badges' = user_badges
          /\ logs' # logs =>
                \E p \in Procs :
                   /\ lpc[p] = "write"
                   /\ LET pk == IF lreq[p].pk = 0 THEN logNext ELSE lreq[p].pk
                      IN  {r \in logs' : r.pk # pk} = {r \in logs : r.pk # pk}]_vars

\* a completed log has been saved for a habit that has a streak, while
\* alice holds a point and a badge
C26_Witness ==
    /\ lres = "saved"
    /\ \E r \in logs : r.completed /\ \E st \in streaks : st.habit = r.habit
    /\ \E r \in logs : ~r.completed
    /\ points["alice"] = 1
    /\ user_badges # {}

\* C27: every stored log has a progress of at most its habit's current
\* target_per_day and is completed exactly when its progress reaches that
\* target, also after habit_edit has changed the target.
C27_LogsFollowCurrentTarget ==
    \A r \in logs :
       /\ r.progress <= habits[r.habit].target_per_day
       /\ r.completed = (r.progress >= habits[r.habit].target_per_day)

\* C28: every log row that a save writes is completed exactly when its
\* progress equals its habit's target_per_day; a progress strictly between
\* 0 and the target gives completed false and status 'pending'.
C28_CompletedIffProgressIsTarget ==
    [][\A r \in logs' \ logs :
          LET target == habits[r.habit].target_per_day
          IN  /\ r.completed = (r.progress = target)
              /\ (0 < r.progress /\ r.progress < target) =>
                    ~r.completed /\ r.status = "pending"]_vars

\* a save has ended with two logs stored: one whose progress equals the
\* target, one whose progress lies strictly between 0 and the target
C28_Witness ==
    /\ lres = "saved"
    /\ \E r \in logs : r.progress = habits[r.habit].target_per_day /\ r.completed
    /\ \E r \in logs : /\ 0 < r.progress /\ r.progress < habits[r.habit].target_per_day
                       /\ ~r.completed /\ r.status = "pending"

\* C29: a user's stored points are never negative, however the reward_claim
\* requests interleave; and the save of a claim that passed the balance test
\* lowers the user's points by exactly the reward's points_required when it
\* is a single claim, that is when no other request slot has ever been used.
C29_PointsNeverNegative ==
    /\ [](\A u \in Users : points[u] >= 0)
    /\ [][\A p \in Procs :
            (/\ rpc[p] = "save"
             /\ \A q \in Procs \ {p} : rpc[q] = "idle" /\ rreq[q] = NoClaim
             /\ reward_claim_save(p))
               => LET u == rreq[p].user
                  IN  /\ points'[u] = points[u] - Rewards[rreq[p].pk].points_required
                      /\ \A v \in Users \ {u} : points'[v] = points[v]]_vars

\* one slot has made one debit, the other was never used: the user's points
\* are the initial ones less the reward's points_required, here down to 0
C29_Witness ==
    \E p \in Procs :
        /\ rpc[p] = "idle" /\ rreq[p].debited
        /\ \A q \in Procs \ {p} : rreq[q] = NoClaim
        /\ points0[rreq[p].user] = Rewards[rreq[p].pk].points_required
        /\ points[rreq[p].user] = 0

\* C30: a reward is claimed at most once.  After the reward_claim of reward
\* R by user U has debited U, a further reward_claim of R by U, issued when
\* no request is in progress and U has the points for it, is rejected and
\* debits nothing.
C30_ClaimedAtMostOnce ==
    [][\A p \in Procs :
         (/\ \A q \in Procs : rpc[q] = "idle"
          /\ rreq[p].debited
          /\ points[rreq[p].user] >= Rewards[rreq[p].pk].points_required
          /\ reward_claim(p, rreq[p].user, rreq[p].pk))
            => /\ rpc'[p] = "idle"
               /\ rres'[p] = "error"
               /\ points' = points]_vars
====
